---- MODULE Spec2Model ----
(***************************************************************************)
(* The verbose reporter (lib/reporters/verbose.js) writing to the          *)
(* TTYStream test sink (test/helper/tty-stream.js).                        *)
(*                                                                         *)
(* Strings are sequences of tokens; concatenation is \o and the newline is *)
(* the token NL.  An optional value (null / undefined in the source) is    *)
(* the empty sequence, a present value v is <<v>>.                         *)
(***************************************************************************)
EXTENDS Integers, Sequences, FiniteSets, TLC

\* ------------------------------------------------------------------ bounds
MaxFailures == 2
MaxKnownFailures == 1
MaxCount == 1
NumChannels == 2

\* --------------------------------------------------------- program constants
threshold == 100

\* ------------------------------------------------------------------ strings
NL == "\n"
SEPARATOR == <<"---tty-stream-chunk-separator", NL>>

Num(n) == <<ToString(n)>>

plur(word, count) == IF count = 1 THEN <<word>> ELSE <<word, "s">>

plur2(word, plural, count) == IF count = 1 THEN <<word>> ELSE <<plural>>

relative(testFile) == <<testFile>>

indentString(str, n) == IF str = <<>> THEN <<>> ELSE <<"indent", ToString(n)>> \o str

prettyMs(ms) == <<ToString(ms), "ms">>

color(style, str) == <<"[" \o style>> \o str \o <<"]">>

cross == <<"cross">>

tick == <<"tick">>

TimeString == <<"HH:MM:SS">>

\* ------------------------------------------------------------------- events
Files == {"a.js", "b.js"}

Channels == 1..NumChannels

ErrPlain ==
    [message |-> "boom", summary |-> "summary", source |-> FALSE, excerpt |-> FALSE,
     avaAssertionError |-> FALSE, printMessage |-> FALSE, formatted |-> FALSE,
     improperUsage |-> FALSE, nonErrorObject |-> FALSE, stackMultiline |-> TRUE]

ErrAssertion ==
    [message |-> "assert", summary |-> "summary", source |-> TRUE, excerpt |-> TRUE,
     avaAssertionError |-> TRUE, printMessage |-> TRUE, formatted |-> TRUE,
     improperUsage |-> FALSE, nonErrorObject |-> FALSE, stackMultiline |-> FALSE]

ErrNonError ==
    [message |-> "", summary |-> "summary", source |-> FALSE, excerpt |-> FALSE,
     avaAssertionError |-> FALSE, printMessage |-> FALSE, formatted |-> FALSE,
     improperUsage |-> FALSE, nonErrorObject |-> TRUE, stackMultiline |-> FALSE]

Evt(type) ==
    [type |-> type, id |-> 0, testFile |-> "", title |-> "", err |-> <<>>, logs |-> <<>>,
     knownFailing |-> FALSE, duration |-> 0, skip |-> FALSE, todo |-> FALSE,
     forcedExit |-> FALSE, nonZeroExitCode |-> 0, signal |-> "", period |-> 0,
     chunk |-> <<>>, stats |-> <<>>]

FileStats(declared, remaining) == [declaredTests |-> declared, remainingTests |-> remaining]

Stats(byFile) ==
    [selectedTests |-> 1, failedHooks |-> 0, failedTests |-> 0, passedTests |-> 0,
     passedKnownFailingTests |-> 0, skippedTests |-> 0, todoTests |-> 0,
     unhandledRejections |-> 0, uncaughtExceptions |-> 0, remainingTests |-> 0,
     files |-> 2, finishedWorkers |-> 2, byFile |-> byFile]

\* -------------------------------------------------------------------- state
VARIABLES
    watching,                   \* options.watching
    failFastEnabled,
    failures,                   \* sequence of hook-failed / test-failed events
    filesWithMissingAvaImports,
    knownFailures,              \* sequence of known-failing test-passed events
    lastLineIsEmpty,
    matching,
    prefixTitle,                \* "identity" or "prefixed": the function held
    previousFailures,
    removePreviousListener,     \* <<>> or <<channel the listener is on>>
    stats,                      \* <<>> or <<snapshot>>
    corked,                     \* the Writable's cork depth
    buffered,                   \* writes the Writable holds while corked
    chunks,                     \* what TTYStream.chunks gained in the latest call
    tail,                       \* how the text of TTYStream.chunks ends, by shape
    listeners,                  \* channel -> number of reporter listeners on it
    arrived,                    \* history: failure events consumed this run
    arrivedKnown,               \* history: known-failing passes consumed this run
    lastCall                    \* history: the latest call and how it ended

reporter ==
    <<failFastEnabled, failures, filesWithMissingAvaImports, knownFailures,
      lastLineIsEmpty, matching, prefixTitle, previousFailures,
      removePreviousListener, stats>>

sink == <<corked, buffered, chunks, tail>>

vars == <<watching, reporter, sink, listeners, arrived, arrivedKnown, lastCall>>

\* ------------------------------------------------------------------- stream
\* The writer's view while a handler runs: the Writable plus lastLineIsEmpty.
IO ==
    [corked |-> corked, buffered |-> buffered, chunks |-> <<>>,
     lastLineIsEmpty |-> lastLineIsEmpty]

\* TTYStream._write: the chunk, then the separator.
_write(cs, chunk) == cs \o <<chunk, SEPARATOR>>

\* TTYStream._writev: every chunk of the batch, then one separator.
_writev(cs, batch) == cs \o batch \o <<SEPARATOR>>

\* Writable.write: buffered while corked, else handed to _write at once.
write(io, chunk) ==
    IF io.corked > 0
    THEN [io EXCEPT !.buffered = Append(@, chunk)]
    ELSE [io EXCEPT !.chunks = _write(@, chunk)]

cork(io) == [io EXCEPT !.corked = @ + 1]

\* Writable.uncork: the buffer is flushed when the depth returns to zero.
uncork(io) ==
    IF io.corked = 0 THEN io
    ELSE IF io.corked > 1 \/ io.buffered = <<>> THEN [io EXCEPT !.corked = @ - 1]
    ELSE [io EXCEPT !.corked = 0, !.buffered = <<>>,
                    !.chunks = IF Len(io.buffered) > 1
                               THEN _writev(@, io.buffered)
                               ELSE _write(@, io.buffered[1])]

writeLine(io, str) ==
    [write(io, str \o <<NL>>) EXCEPT !.lastLineIsEmpty = (str = <<>>)]

\* Mutant: the empty line is written whatever the flag says.
ensureEmptyLineAlways(io) == writeLine(io, <<>>)

ensureEmptyLine(io) == IF io.lastLineIsEmpty THEN io ELSE writeLine(io, <<>>)

\* A handler's output is a list of commands run in order against the writer.
WriteLine(str) == [op |-> "writeLine", str |-> str]

EnsureEmptyLine == [op |-> "ensureEmptyLine", str |-> <<>>]

\* Mutant: the chunk goes through writeLine, which appends a newline.
WriteAsLine(chunk) == [op |-> "writeLine", str |-> chunk]

Write(chunk) == [op |-> "write", str |-> chunk]

WriteLines(strs) == [i \in 1..Len(strs) |-> WriteLine(strs[i])]

\* The commands in order.  The writer is looked at before each command, so
\* that its value is computed step by step; the cork depth is never negative.
RECURSIVE run(_, _)
run(io, cmds) ==
    IF cmds = <<>> \/ io.corked < 0 THEN io
    ELSE LET c == Head(cmds)
             next == CASE c.op = "writeLine" -> writeLine(io, c.str)
                       [] c.op = "ensureEmptyLine" -> ensureEmptyLine(io)
                       [] OTHER -> write(io, c.str)
         IN run(next, Tail(cmds))

\* The text the sink holds in cs: the chunks without the separators.
RECURSIVE Text(_)
Text(cs) ==
    IF cs = <<>> THEN <<>>
    ELSE (IF Head(cs) = SEPARATOR THEN <<>> ELSE Head(cs)) \o Text(Tail(cs))

\* A token by shape: the newline, or anything else.
Shape(t) == IF t = NL THEN NL ELSE "-"

Shapes(text) == [i \in 1..Len(text) |-> Shape(text[i])]

\* How text ends: on a token that is no newline, on the newline of a line
\* with text, or on the newline of an empty line.
Ending(text) ==
    IF text = <<>> THEN <<>>
    ELSE IF text[Len(text)] # NL THEN <<"-">>
    ELSE IF Len(text) = 1 THEN <<NL>>
    ELSE SubSeq(text, Len(text) - 1, Len(text))

HasText(c) == c # SEPARATOR /\ c # <<>>

\* How TTYStream.chunks ends once cs has been pushed after text ending in old:
\* the last two chunks with text hold the last two tokens.
sinkTail(old, cs) ==
    LET txt == SelectSeq(cs, HasText)
        k == Len(txt)
    IN IF k = 0 THEN old
       ELSE IF k = 1 THEN Ending(old \o Shapes(txt[1]))
       ELSE Ending(Shapes(txt[k - 1]) \o Shapes(txt[k]))

\* ----------------------------------------------------------------- reporter
\* ./prefix-title: the file-derived prefix, a separator, the title.
prefixTitleOf(testFile, title) == <<testFile, ">", title>>

\* this.prefixTitle(testFile, title), by the function the reporter holds.
thisPrefixTitle(testFile, title) ==
    IF prefixTitle = "identity" THEN <<title>> ELSE prefixTitleOf(testFile, title)

\* The fields of a reporter object, as reset() finds them.
This ==
    [failFastEnabled |-> failFastEnabled, failures |-> failures,
     filesWithMissingAvaImports |-> filesWithMissingAvaImports,
     knownFailures |-> knownFailures, lastLineIsEmpty |-> lastLineIsEmpty,
     matching |-> matching, prefixTitle |-> prefixTitle,
     previousFailures |-> previousFailures,
     removePreviousListener |-> removePreviousListener, stats |-> stats]

\* The object the constructor is given: no listener yet, nothing recorded.
Fresh ==
    [failFastEnabled |-> FALSE, failures |-> <<>>, filesWithMissingAvaImports |-> {},
     knownFailures |-> <<>>, lastLineIsEmpty |-> FALSE, matching |-> FALSE,
     prefixTitle |-> "identity", previousFailures |-> 0,
     removePreviousListener |-> <<>>, stats |-> <<>>]

\* Mutant: reset() without the line that empties failures.
resetKeepsFailures(self) ==
    [failFastEnabled |-> FALSE, failures |-> self.failures, filesWithMissingAvaImports |-> {},
     knownFailures |-> <<>>, lastLineIsEmpty |-> FALSE, matching |-> FALSE,
     prefixTitle |-> "identity", previousFailures |-> 0,
     removePreviousListener |-> <<>>, stats |-> <<>>]

\* The fields after reset().
reset(self) ==
    [failFastEnabled |-> FALSE, failures |-> <<>>, filesWithMissingAvaImports |-> {},
     knownFailures |-> <<>>, lastLineIsEmpty |-> FALSE, matching |-> FALSE,
     prefixTitle |-> "identity", previousFailures |-> 0,
     removePreviousListener |-> <<>>, stats |-> <<>>]

\* Mutant: reset() without the call of removePreviousListener.
unsubscribeNever(ls, handle) == ls

\* The unsubscribe function plan.status.on returned: it takes the listener off.
unsubscribe(ls, handle) ==
    IF handle = <<>> THEN ls ELSE [ls EXCEPT ![handle[1]] = @ - 1]

\* plan.status.on('stateChange', ...): one more listener on the plan's channel.
subscribe(ls, chan) == [ls EXCEPT ![chan] = @ + 1]

\* The lines writeErr(evt) writes; evt.err is present.
writeErr(evt) ==
    LET err == evt.err[1] IN
    (IF err.source
     THEN <<<<"  ">> \o color("errorSource", <<"file:line">>)>>
          \o (IF err.excerpt THEN << <<>>, indentString(<<"excerpt">>, 2) >> ELSE <<>>)
     ELSE <<>>)
    \o (IF err.avaAssertionError
        THEN (IF err.printMessage THEN << <<>>, indentString(<<err.message>>, 2) >> ELSE <<>>)
             \o (IF err.formatted THEN << <<>>, indentString(<<"formatted">>, 2) >> ELSE <<>>)
             \o (IF err.improperUsage THEN << <<>>, indentString(<<"usage">>, 2) >> ELSE <<>>)
        ELSE IF err.nonErrorObject
        THEN << indentString(<<"formatted">>, 2) >>
        ELSE << <<>>, indentString(<<err.message>>, 2) >>)
    \o (IF err.stackMultiline
        THEN << <<>>, indentString(color("errorStack", <<"stack">>), 2) >>
        ELSE <<>>)

\* The lines writeLogs(evt) writes: one per log.
writeLogs(evt) ==
    [i \in 1..Len(evt.logs) |->
        <<"    ">> \o color("information", <<"info">>) \o <<" ">> \o color("log", <<evt.logs[i]>>)]

\* Mutant: a duration equal to the threshold is displayed too.
durationSuffixFromThreshold(evt) ==
    IF evt.duration >= threshold
    THEN color("duration", <<" (">> \o prettyMs(evt.duration) \o <<")">>)
    ELSE <<>>

\* Display duration only over a threshold.
durationSuffix(evt) ==
    IF evt.duration > threshold
    THEN color("duration", <<" (">> \o prettyMs(evt.duration) \o <<")">>)
    ELSE <<>>

\* The lines writeTestSummary(evt) writes.
writeTestSummary(evt) ==
    (IF evt.type = "hook-failed" \/ evt.type = "test-failed"
     THEN << <<"  ">> \o color("error", cross) \o <<" ">>
             \o thisPrefixTitle(evt.testFile, evt.title) \o <<" ">>
             \o color("error", <<evt.err[1].message>>) >>
     ELSE IF evt.knownFailing
     THEN << <<"  ">> \o color("error", tick) \o <<" ">>
             \o color("error", thisPrefixTitle(evt.testFile, evt.title)) >>
     ELSE << <<"  ">> \o color("pass", tick) \o <<" ">>
             \o thisPrefixTitle(evt.testFile, evt.title) \o durationSuffix(evt) >>)
    \o writeLogs(evt)

\* The lines writeFailure(evt) writes.
writeFailure(evt) ==
    << <<"  ">> \o color("title", thisPrefixTitle(evt.testFile, evt.title)) >>
    \o writeLogs(evt) \o << <<>> >> \o writeErr(evt)

\* ------------------------------------------------------- consumeStateChange
\* const fileStats = this.stats && evt.testFile ? this.stats.byFile.get(...) : null
fileStats(evt) ==
    IF stats # <<>> /\ evt.testFile # "" /\ evt.testFile \in DOMAIN stats[1].byFile
    THEN <<stats[1].byFile[evt.testFile]>>
    ELSE <<>>

ExceptionTypes == {"uncaught-exception", "unhandled-rejection"}

\* Mutant: the default arm records the event as a failure.
isFailureByDefault(evt) == evt.type \in {"hook-failed", "test-failed", "unknown"}

isFailure(evt) == evt.type \in {"hook-failed", "test-failed"}

\* Mutant: the failure is put in front of the list.
unshiftFailure(list, evt) == <<evt>> \o list

\* this.failures.push(evt)
pushFailure(list, evt) == Append(list, evt)

\* Mutant: the known failure is not recorded.
dropKnownFailure(list, evt) == list

\* this.knownFailures.push(evt)
pushKnownFailure(list, evt) == Append(list, evt)

\* Mutant: a snapshot already held is kept.
setStatsOnce(evt) == IF stats = <<>> THEN evt.stats ELSE stats

\* case 'stats': this.stats = evt.stats
setStats(evt) == evt.stats

\* Mutant: a file flagged for a missing import is treated like any other.
workerFinishedIgnoresFlag(evt) == ~evt.forcedExit

\* The worker-finished branch reads fileStats.declaredTests unguarded.
workerFinishedReadsStats(evt) ==
    ~evt.forcedExit /\ evt.testFile \notin filesWithMissingAvaImports

\* Whether the call ends by a TypeError: a property read of null / undefined.
consumeThrows(evt) ==
    \/ evt.type = "internal-error" /\ evt.err = <<>>
    \/ evt.type = "worker-finished" /\ workerFinishedReadsStats(evt) /\ fileStats(evt) = <<>>

internalErrorCommands(evt) ==
    <<WriteLine(color("error",
        <<"  ", "cross", " Internal error">>
        \o (IF evt.testFile # "" THEN <<" when running ">> \o relative(evt.testFile) ELSE <<>>)))>>
    \o (IF evt.err = <<>> THEN <<>>
        ELSE <<WriteLine(indentString(color("stack", <<evt.err[1].summary>>), 2)),
               WriteLine(indentString(color("errorStack", <<"stack">>), 2)),
               WriteLine(<<NL, NL>>)>>)

selectedTestCommands(evt) ==
    IF evt.skip
    THEN <<WriteLine(<<"  ">> \o color("skip", <<"- ">> \o thisPrefixTitle(evt.testFile, evt.title)))>>
    ELSE IF evt.todo
    THEN <<WriteLine(<<"  ">> \o color("todo", <<"- ">> \o thisPrefixTitle(evt.testFile, evt.title)))>>
    ELSE <<>>

exceptionCommands(evt, what) ==
    <<EnsureEmptyLine,
      WriteLine(<<"  ">> \o color("title", <<what, " in ">> \o relative(evt.testFile))),
      WriteLine(<<>>)>>
    \o WriteLines(writeErr(evt))
    \o <<WriteLine(<<>>)>>

workerFailedCommands(evt) ==
    IF evt.testFile \in filesWithMissingAvaImports THEN <<>>
    ELSE IF evt.nonZeroExitCode # 0
    THEN <<WriteLine(color("error", <<"  ", "cross", " ">> \o relative(evt.testFile)
              \o <<" exited with a non-zero exit code: ">> \o Num(evt.nonZeroExitCode)))>>
    ELSE <<WriteLine(color("error", <<"  ", "cross", " ">> \o relative(evt.testFile)
              \o <<" exited due to ", evt.signal>>))>>

\* Mutant: the remaining-tests line does not look at fail-fast.
workerFinishedCommandsAnyMode(evt) ==
    IF ~workerFinishedReadsStats(evt) \/ fileStats(evt) = <<>> THEN <<>>
    ELSE LET fs == fileStats(evt)[1] IN
         IF fs.declaredTests = 0
         THEN <<WriteLine(color("error", <<"  ", "cross", " No tests found in ">>
                    \o relative(evt.testFile)))>>
         ELSE IF fs.remainingTests > 0
         THEN <<WriteLine(color("error", <<"  ", "cross", " ">> \o Num(fs.remainingTests)
                    \o <<" ">> \o plur("test", fs.remainingTests) \o <<" remaining in ">>
                    \o relative(evt.testFile)))>>
         ELSE <<>>

workerFinishedCommands(evt) ==
    IF ~workerFinishedReadsStats(evt) \/ fileStats(evt) = <<>> THEN <<>>
    ELSE LET fs == fileStats(evt)[1] IN
         IF fs.declaredTests = 0
         THEN <<WriteLine(color("error", <<"  ", "cross", " No tests found in ">>
                    \o relative(evt.testFile)))>>
         ELSE IF ~failFastEnabled /\ fs.remainingTests > 0
         THEN <<WriteLine(color("error", <<"  ", "cross", " ">> \o Num(fs.remainingTests)
                    \o <<" ">> \o plur("test", fs.remainingTests) \o <<" remaining in ">>
                    \o relative(evt.testFile)))>>
         ELSE <<>>

\* What the switch writes for evt, up to the point where the call throws.
consumeCommands(evt) ==
    CASE evt.type \in {"hook-failed", "test-failed", "test-passed"} ->
            WriteLines(writeTestSummary(evt))
      [] evt.type = "internal-error" -> internalErrorCommands(evt)
      [] evt.type = "missing-ava-import" ->
            <<WriteLine(color("error", <<"  ", "cross", " No tests found in ">>
                \o relative(evt.testFile) \o <<", make sure to import \"ava\"">>))>>
      [] evt.type = "selected-test" -> selectedTestCommands(evt)
      [] evt.type = "timeout" ->
            <<WriteLine(color("error", <<"  ", "cross", " Exited because no new tests completed within the last ">>
                \o Num(evt.period) \o <<"ms of inactivity">>))>>
      [] evt.type = "uncaught-exception" -> exceptionCommands(evt, "Uncaught exception")
      [] evt.type = "unhandled-rejection" -> exceptionCommands(evt, "Unhandled rejection")
      [] evt.type = "worker-failed" -> workerFailedCommands(evt)
      [] evt.type = "worker-finished" -> workerFinishedCommands(evt)
      [] evt.type \in {"worker-stderr", "worker-stdout"} -> <<Write(evt.chunk)>>
      [] OTHER -> <<>>

\* Mutant: uncork after fn returns, skipped when fn throws.
whileCorkedNoFinally(io, cmds, threw) ==
    IF threw THEN run(cork(io), cmds) ELSE uncork(run(cork(io), cmds))

\* whileCorked(stream, fn): cork, run fn, uncork in the finally clause.
whileCorked(io, cmds, threw) == uncork(run(cork(io), cmds))

\* ------------------------------------------------------------------- endRun
firstLinePostfix ==
    IF watching THEN <<" ">> \o color("gray.dim", <<"[">> \o TimeString \o <<"]">>) ELSE <<>>

hooksFailedLine(s, postfix) ==
    <<"  ">> \o color("error", Num(s.failedHooks) \o <<" ">> \o plur("hook", s.failedHooks)
                              \o <<" failed">>) \o postfix

testsFailedLine(s, postfix) ==
    <<"  ">> \o color("error", Num(s.failedTests) \o <<" ">> \o plur("test", s.failedTests)
                              \o <<" failed">>) \o postfix

testsPassedLine(s, postfix) ==
    <<"  ">> \o color("pass", Num(s.passedTests) \o <<" ">> \o plur("test", s.passedTests)
                             \o <<" passed">>) \o postfix

\* Mutant: firstLinePostfix is not emptied after the failed-hooks line.
postfixKept(s, postfix) == postfix

\* firstLinePostfix after the failed-hooks statement.
postfixAfterHooks(s, postfix) == IF s.failedHooks > 0 THEN <<>> ELSE postfix

\* firstLinePostfix after the failed-tests statement.
postfixAfterTests(s, postfix) == IF s.failedTests > 0 THEN <<>> ELSE postfix

\* Mutant: the passed-tests line is written whenever a test passed.
primaryCountLinesPassAlways(s) ==
    LET p0 == firstLinePostfix
        p1 == postfixAfterHooks(s, p0)
        p2 == postfixAfterTests(s, p1)
    IN (IF s.failedHooks > 0 THEN <<hooksFailedLine(s, p0)>> ELSE <<>>)
       \o (IF s.failedTests > 0 THEN <<testsFailedLine(s, p1)>> ELSE <<>>)
       \o (IF s.passedTests > 0 THEN <<testsPassedLine(s, p2)>> ELSE <<>>)

\* The failed-hooks, failed-tests and passed-tests lines.
primaryCountLines(s) ==
    LET p0 == firstLinePostfix
        p1 == postfixAfterHooks(s, p0)
        p2 == postfixAfterTests(s, p1)
    IN (IF s.failedHooks > 0 THEN <<hooksFailedLine(s, p0)>> ELSE <<>>)
       \o (IF s.failedTests > 0 THEN <<testsFailedLine(s, p1)>> ELSE <<>>)
       \o (IF s.failedHooks = 0 /\ s.failedTests = 0 /\ s.passedTests > 0
           THEN <<testsPassedLine(s, p2)>> ELSE <<>>)

countLine(style, n, words) == <<"  ">> \o color(style, Num(n) \o <<" ">> \o words)

\* The known-failure, skipped, todo, rejection, exception, previous-failure lines.
secondaryCountLines(s) ==
    (IF s.passedKnownFailingTests > 0
     THEN <<countLine("error", s.passedKnownFailingTests,
                      plur("known failure", s.passedKnownFailingTests))>> ELSE <<>>)
    \o (IF s.skippedTests > 0
        THEN <<countLine("skip", s.skippedTests,
                         plur("test", s.skippedTests) \o <<" skipped">>)>> ELSE <<>>)
    \o (IF s.todoTests > 0
        THEN <<countLine("todo", s.todoTests,
                         plur("test", s.todoTests) \o <<" todo">>)>> ELSE <<>>)
    \o (IF s.unhandledRejections > 0
        THEN <<countLine("error", s.unhandledRejections,
                         <<"unhandled ">> \o plur("rejection", s.unhandledRejections))>> ELSE <<>>)
    \o (IF s.uncaughtExceptions > 0
        THEN <<countLine("error", s.uncaughtExceptions,
                         <<"uncaught ">> \o plur("exception", s.uncaughtExceptions))>> ELSE <<>>)
    \o (IF previousFailures > 0
        THEN <<countLine("error", previousFailures,
                         <<"previous ">> \o plur("failure", previousFailures)
                         \o <<" in test files that were not rerun">>)>> ELSE <<>>)

knownFailureLine(evt) == <<"  ">> \o color("error", thisPrefixTitle(evt.testFile, evt.title))

\* The list of known failures, printed under the stats count.
knownFailureLines(s) ==
    IF s.passedKnownFailingTests > 0
    THEN << <<>> >> \o [i \in 1..Len(knownFailures) |-> knownFailureLine(knownFailures[i])]
    ELSE <<>>

\* Mutant: both conditions are required.
shouldWriteWhenBoth(s) ==
    failFastEnabled /\ (s.remainingTests > 0 /\ s.files > s.finishedWorkers)

shouldWriteFailFastDisclaimer(s) ==
    failFastEnabled /\ (s.remainingTests > 0 \/ s.files > s.finishedWorkers)

\* The three empty lines written after a failure.
separatorLines(evt, lastFailure, disclaimer) ==
    IF evt # lastFailure \/ disclaimer THEN << <<>>, <<>>, <<>> >> ELSE <<>>

RECURSIVE failureLines(_, _, _)
failureLines(list, lastFailure, disclaimer) ==
    IF list = <<>> THEN <<>>
    ELSE writeFailure(Head(list)) \o separatorLines(Head(list), lastFailure, disclaimer)
         \o failureLines(Tail(list), lastFailure, disclaimer)

failuresSection(s) ==
    IF Len(failures) > 0
    THEN << <<>> >> \o failureLines(failures, failures[Len(failures)],
                                    shouldWriteFailFastDisclaimer(s))
    ELSE <<>>

\* The text between "--fail-fast is on. " and the final full stop.
remaining(s) ==
    LET skippedFileCount == s.files - s.finishedWorkers IN
    (IF s.remainingTests > 0
     THEN <<"At least ">> \o Num(s.remainingTests) \o <<" ">>
          \o plur2("test was", "tests were", s.remainingTests) \o <<" skipped">>
          \o (IF s.files > s.finishedWorkers THEN <<", as well as ">> ELSE <<>>)
     ELSE <<>>)
    \o (IF s.files > s.finishedWorkers
        THEN Num(skippedFileCount) \o <<" ">>
             \o plur2("test file", "test files", skippedFileCount)
             \o (IF s.remainingTests = 0
                 THEN <<" ">> \o plur2("was", "were", skippedFileCount) \o <<" skipped">>
                 ELSE <<>>)
        ELSE <<>>)

disclaimerLine(s) ==
    <<"  ">> \o color("information", <<"--fail-fast is on. ">> \o remaining(s) \o <<".">>)

\* Mutant: the message without the empty line after it.
noFilesLinesBare == <<color("error", <<"  ", "cross", " Could not find any files to test">>)>>

noFilesLines == <<color("error", <<"  ", "cross", " Could not find any files to test">>), <<>> >>

noMatchingLines == <<color("error", <<"  ", "cross", " Could not find any matching tests">>), <<>> >>

\* Every line endRun writes, in order.
endRunLines ==
    IF stats = <<>> THEN noFilesLines
    ELSE LET s == stats[1] IN
         IF matching /\ s.selectedTests = 0 THEN noMatchingLines
         ELSE << <<>> >>
              \o primaryCountLines(s) \o secondaryCountLines(s)
              \o knownFailureLines(s)
              \o failuresSection(s)
              \o (IF shouldWriteFailFastDisclaimer(s) THEN <<disclaimerLine(s)>> ELSE <<>>)
              \o << <<>> >>

\* ------------------------------------------------------------------ actions
Plan(ff, m, pf, n, rv, chan) ==
    [failFastEnabled |-> ff, matching |-> m, previousFailures |-> pf,
     files |-> n, runVector |-> rv, status |-> chan]

NoPlan == Plan(FALSE, FALSE, 0, 0, 0, 0)

\* The history record of a call: what was called, with what, how it ended, the
\* snapshot held when it began and, for an uncaught-exception or
\* unhandled-rejection event that follows another one, the type of that one.
Call(op, chan, evt, threw, plan) ==
    [op |-> op, chan |-> chan, evt |-> evt, threw |-> threw, plan |-> plan,
     prevStats |-> stats, prevFailures |-> Len(failures),
     prevListener |-> removePreviousListener,
     prevType |-> IF evt.type \in ExceptionTypes /\ lastCall.op = "consumeStateChange"
                     /\ lastCall.evt.type \in ExceptionTypes
                  THEN lastCall.evt.type ELSE ""]

\* new VerboseReporter(options): the constructor ends with reset().
Init ==
    /\ watching \in BOOLEAN
    /\ failFastEnabled = reset(Fresh).failFastEnabled
    /\ failures = reset(Fresh).failures
    /\ filesWithMissingAvaImports = reset(Fresh).filesWithMissingAvaImports
    /\ knownFailures = reset(Fresh).knownFailures
    /\ lastLineIsEmpty = reset(Fresh).lastLineIsEmpty
    /\ matching = reset(Fresh).matching
    /\ prefixTitle = reset(Fresh).prefixTitle
    /\ previousFailures = reset(Fresh).previousFailures
    /\ removePreviousListener = reset(Fresh).removePreviousListener
    /\ stats = reset(Fresh).stats
    /\ corked = 0
    /\ buffered = <<>>
    /\ chunks = <<>>
    /\ tail = <<>>
    /\ listeners = [c \in Channels |-> 0]
    /\ arrived = <<>>
    /\ arrivedKnown = <<>>
    /\ lastCall = Call("new", 0, Evt("none"), FALSE, NoPlan)

\* Mutant: watch mode is not looked at.
selectPrefixTitleByFiles(plan) ==
    IF plan.files > 1 THEN "prefixed" ELSE reset(This).prefixTitle

\* The prefixer startRun leaves in place.
selectPrefixTitle(plan) ==
    IF watching \/ plan.files > 1 THEN "prefixed" ELSE reset(This).prefixTitle

startRunCommands(plan) ==
    (IF watching /\ plan.runVector > 1
     THEN <<WriteLine(color("gray.dim", <<"rule">>))>> ELSE <<>>)
    \o <<WriteLine(<<>>)>>

StartRun(plan) ==
    \E io \in {run([IO EXCEPT !.lastLineIsEmpty = reset(This).lastLineIsEmpty],
                    startRunCommands(plan))} :
       /\ failFastEnabled' = plan.failFastEnabled
       /\ matching' = plan.matching
       /\ previousFailures' = plan.previousFailures
       /\ failures' = reset(This).failures
       /\ filesWithMissingAvaImports' = reset(This).filesWithMissingAvaImports
       /\ knownFailures' = reset(This).knownFailures
       /\ stats' = reset(This).stats
       /\ prefixTitle' = selectPrefixTitle(plan)
       /\ listeners' = subscribe(unsubscribe(listeners, removePreviousListener), plan.status)
       /\ removePreviousListener' = <<plan.status>>
       /\ lastLineIsEmpty' = io.lastLineIsEmpty
       /\ corked' = io.corked
       /\ buffered' = io.buffered
       /\ chunks' = io.chunks
       /\ tail' = sinkTail(tail, io.chunks)
       /\ arrived' = <<>>
       /\ arrivedKnown' = <<>>
       /\ lastCall' = Call("startRun", plan.status, Evt("none"), FALSE, plan)
       /\ UNCHANGED watching

\* One listener of the channel receives evt: consumeStateChange(evt).
ConsumeStateChange(chan, evt) ==
    /\ listeners[chan] > 0
    /\ isFailure(evt) => Len(failures) < MaxFailures
    /\ (evt.type = "test-passed" /\ evt.knownFailing) => Len(knownFailures) < MaxKnownFailures
    /\ \E threw \in {consumeThrows(evt)} :
       \E io \in {whileCorked(IO, consumeCommands(evt), threw)} :
       /\ failures' = IF isFailure(evt) THEN pushFailure(failures, evt) ELSE failures
       /\ knownFailures' = IF evt.type = "test-passed" /\ evt.knownFailing
                           THEN pushKnownFailure(knownFailures, evt) ELSE knownFailures
       /\ filesWithMissingAvaImports' =
              IF evt.type = "missing-ava-import"
              THEN filesWithMissingAvaImports \cup {evt.testFile}
              ELSE filesWithMissingAvaImports
       /\ stats' = IF evt.type = "stats" THEN setStats(evt) ELSE stats
       /\ lastLineIsEmpty' = io.lastLineIsEmpty
       /\ corked' = io.corked
       /\ buffered' = io.buffered
       /\ chunks' = io.chunks
       /\ tail' = sinkTail(tail, io.chunks)
       /\ arrived' = IF isFailure(evt) THEN Append(arrived, evt) ELSE arrived
       /\ arrivedKnown' = IF evt.type = "test-passed" /\ evt.knownFailing
                          THEN Append(arrivedKnown, evt) ELSE arrivedKnown
       /\ lastCall' = Call("consumeStateChange", chan, evt, threw, NoPlan)
       /\ UNCHANGED <<watching, failFastEnabled, matching, prefixTitle, previousFailures,
                      removePreviousListener, listeners>>

\* An event on a channel the reporter has no listener on reaches nothing.
EmitUnheard(chan) ==
    /\ listeners[chan] = 0
    /\ lastCall' = Call("unheard", chan, Evt("none"), FALSE, NoPlan)
    /\ UNCHANGED <<watching, reporter, sink, listeners, arrived, arrivedKnown>>

EndRun ==
    \E io \in {whileCorked(IO, WriteLines(endRunLines), FALSE)} :
       /\ lastLineIsEmpty' = io.lastLineIsEmpty
       /\ corked' = io.corked
       /\ buffered' = io.buffered
       /\ chunks' = io.chunks
       /\ tail' = sinkTail(tail, io.chunks)
       /\ lastCall' = Call("endRun", 0, Evt("none"), FALSE, NoPlan)
       /\ UNCHANGED <<watching, failFastEnabled, failures, filesWithMissingAvaImports,
                      knownFailures, matching, prefixTitle, previousFailures,
                      removePreviousListener, stats, listeners, arrived, arrivedKnown>>

\* ------------------------------------------------------------------- inputs
HookFailed ==
    [Evt("hook-failed") EXCEPT !.id = 1, !.testFile = "a.js", !.title = "before",
                               !.err = <<ErrPlain>>, !.logs = <<"log">>]

TestFailed ==
    [Evt("test-failed") EXCEPT !.id = 2, !.testFile = "b.js", !.title = "t",
                               !.err = <<ErrAssertion>>]

FailureEvents == {HookFailed, TestFailed}

TestPassed(kf, d) ==
    [Evt("test-passed") EXCEPT !.testFile = "a.js", !.title = "t",
                               !.knownFailing = kf, !.duration = d]

TestPassedEvents ==
    {TestPassed(FALSE, threshold), TestPassed(FALSE, threshold + 1),
     TestPassed(TRUE, threshold + 1)}

InternalErrorEvents ==
    {[Evt("internal-error") EXCEPT !.testFile = "a.js", !.err = <<ErrPlain>>],
     Evt("internal-error")}

MissingAvaImport == [Evt("missing-ava-import") EXCEPT !.testFile = "a.js"]

SelectedTestEvents ==
    {[Evt("selected-test") EXCEPT !.testFile = "a.js", !.title = "t", !.skip = TRUE],
     [Evt("selected-test") EXCEPT !.testFile = "a.js", !.title = "t", !.todo = TRUE],
     [Evt("selected-test") EXCEPT !.testFile = "a.js", !.title = "t"]}

ExceptionEvents ==
    {[Evt("uncaught-exception") EXCEPT !.testFile = "a.js", !.err = <<ErrNonError>>],
     [Evt("unhandled-rejection") EXCEPT !.testFile = "b.js", !.err = <<ErrPlain>>]}

WorkerFailedEvents ==
    {[Evt("worker-failed") EXCEPT !.testFile = f, !.nonZeroExitCode = 1] : f \in Files}
    \cup {[Evt("worker-failed") EXCEPT !.testFile = "a.js", !.signal = "SIGKILL"]}

WorkerFinishedEvents ==
    {[Evt("worker-finished") EXCEPT !.testFile = f, !.forcedExit = x] :
        f \in Files, x \in BOOLEAN}

WorkerStdout == [Evt("worker-stdout") EXCEPT !.chunk = <<"hello", NL>>]

WorkerStderr == [Evt("worker-stderr") EXCEPT !.chunk = <<"hello">>]

OtherEvents ==
    {Evt("declared-test"), [Evt("timeout") EXCEPT !.period = 10], Evt("unknown")}

\* Snapshots the run status may send: a file's entry may be missing.
NoTestsSnapshot == [Stats("a.js" :> FileStats(0, 0)) EXCEPT !.selectedTests = 0]

FailedSnapshot ==
    [Stats(("a.js" :> FileStats(2, 1)) @@ ("b.js" :> FileStats(1, 0)))
        EXCEPT !.failedTests = 1, !.passedKnownFailingTests = 1, !.remainingTests = 1,
               !.finishedWorkers = 1]

StatsEvent(s) == [Evt("stats") EXCEPT !.stats = <<s>>]

StatsEvents == {StatsEvent(NoTestsSnapshot), StatsEvent(FailedSnapshot)}

\* Every event type of the switch, and one it does not name.
Events ==
    FailureEvents \cup TestPassedEvents \cup InternalErrorEvents \cup {MissingAvaImport}
    \cup SelectedTestEvents \cup ExceptionEvents \cup WorkerFailedEvents
    \cup WorkerFinishedEvents \cup {WorkerStdout, WorkerStderr} \cup OtherEvents
    \cup StatsEvents

\* The plans of a single-channel session.
Plans == {Plan(ff, FALSE, 0, n, rv, 1) : ff \in BOOLEAN, n \in {1, 2}, rv \in {1, 2}}

\* One run after another on one channel, with every event type; a run takes
\* one failure here, NextFailures takes more.
Next ==
    \/ \E plan \in Plans : StartRun(plan)
    \/ \E evt \in Events : (isFailure(evt) => failures = <<>>) /\ ConsumeStateChange(1, evt)
    \/ EmitUnheard(1)
    \/ EndRun

Spec == Init /\ [][Next]_vars

\* Runs that collect failures up to MaxFailures, among events that write.
FailurePlans == {Plan(ff, FALSE, 0, n, 1, 1) : ff \in BOOLEAN, n \in {1, 2}}

NextFailures ==
    \/ \E plan \in FailurePlans : StartRun(plan)
    \/ \E evt \in FailureEvents \cup StatsEvents \cup {WorkerStdout, TestPassed(FALSE, threshold)} :
            ConsumeStateChange(1, evt)
    \/ EndRun

SpecFailures == Init /\ [][NextFailures]_vars

\* Reruns: every plan, on any channel, with the events that change RunState.
RunEvents ==
    {TestFailed, TestPassed(TRUE, threshold + 1), MissingAvaImport, StatsEvent(FailedSnapshot)}

RunPlans ==
    {Plan(ff, m, pf, n, 1, chan) :
        ff \in BOOLEAN, m \in BOOLEAN, pf \in {0, MaxCount}, n \in {1, 2}, chan \in Channels}

NextRuns ==
    \/ \E plan \in RunPlans : StartRun(plan)
    \/ \E chan \in Channels, evt \in RunEvents : ConsumeStateChange(chan, evt)
    \/ \E chan \in Channels : EmitUnheard(chan)
    \/ EndRun

SpecRuns == Init /\ [][NextRuns]_vars

\* Passing tests and snapshots, with and without a match filter.
KnownPlans == {Plan(FALSE, m, 0, n, 1, 1) : m \in BOOLEAN, n \in {1, 2}}

NextKnown ==
    \/ \E plan \in KnownPlans : StartRun(plan)
    \/ \E evt \in TestPassedEvents \cup StatsEvents : ConsumeStateChange(1, evt)
    \/ EndRun

SpecKnown == Init /\ [][NextKnown]_vars

\* Runs over plans of no file, one file and several files, with events whose
\* lines carry a title.
PrefixPlans == {Plan(FALSE, FALSE, 0, n, rv, 1) : n \in {0, 1, 2, 3}, rv \in {1, 2}}

PrefixEvents ==
    {TestFailed, TestPassed(FALSE, threshold + 1), StatsEvent(FailedSnapshot)}

NextPrefix ==
    \/ \E plan \in PrefixPlans : StartRun(plan)
    \/ \E evt \in PrefixEvents : ConsumeStateChange(1, evt)
    \/ EndRun

SpecPrefix == Init /\ [][NextPrefix]_vars

\* endRun as a function of the state a run has reached: the runs start in the
\* states startRun and the events up to a stats event leave behind.
CountSnapshots ==
    {[Stats(<<>>) EXCEPT !.selectedTests = sel, !.failedHooks = fh, !.failedTests = ft,
                         !.passedTests = pt, !.passedKnownFailingTests = kf,
                         !.skippedTests = sk, !.todoTests = td,
                         !.unhandledRejections = ur, !.uncaughtExceptions = ue] :
        sel \in {0, 1}, fh \in 0..MaxCount, ft \in 0..MaxCount, pt \in 0..MaxCount,
        kf \in 0..MaxCount, sk \in 0..MaxCount, td \in 0..MaxCount,
        ur \in 0..MaxCount, ue \in 0..MaxCount}

FailFastSnapshots ==
    {[Stats(<<>>) EXCEPT !.selectedTests = sel, !.failedTests = 1, !.remainingTests = r,
                         !.files = 5, !.finishedWorkers = fw] :
        sel \in {0, 1}, r \in 0..(MaxCount + 1), fw \in {3, 4, 5}}

\* Snapshots over the three counts of the primary lines, up to counts that
\* take the plural.
PrimarySnapshots ==
    {[Stats(<<>>) EXCEPT !.failedHooks = fh, !.failedTests = ft, !.passedTests = pt] :
        fh \in 0..(MaxCount + 1), ft \in 0..(MaxCount + 1), pt \in {0, 1, MaxCount + 2}}

InitSummary ==
    /\ watching \in BOOLEAN
    /\ matching \in BOOLEAN
    /\ \/ /\ stats \in {<<s>> : s \in CountSnapshots \cup PrimarySnapshots}
          /\ failFastEnabled = FALSE
          /\ previousFailures \in 0..MaxCount
          /\ failures = <<>>
       \/ /\ stats \in {<<s>> : s \in FailFastSnapshots}
          /\ failFastEnabled \in BOOLEAN
          /\ previousFailures = 0
          /\ failures \in {<<>>, <<TestFailed>>}
    /\ filesWithMissingAvaImports = {}
    /\ knownFailures = <<>>
    /\ lastLineIsEmpty = TRUE
    /\ prefixTitle = IF watching THEN "prefixed" ELSE "identity"
    /\ removePreviousListener = <<1>>
    /\ corked = 0
    /\ buffered = <<>>
    /\ chunks = <<>>
    /\ tail = <<NL>>
    /\ listeners = [c \in Channels |-> IF c = 1 THEN 1 ELSE 0]
    /\ arrived = failures
    /\ arrivedKnown = <<>>
    /\ lastCall = [Call("consumeStateChange", 1, StatsEvent(stats[1]), FALSE, NoPlan)
                      EXCEPT !.prevStats = <<>>]

NextSummary == EndRun

SpecSummary == InitSummary /\ [][NextSummary]_vars

\* ------------------------------------------------------------ observations
\* The lines of the latest call's output: every chunk but the separators.
IsSeparator(c) == c = SEPARATOR

IsText(c) == c # SEPARATOR

Written == SelectSeq(chunks, IsText)

IsTitleLine(c) == Len(c) >= 2 /\ c[1] = "  " /\ c[2] = "[title"

\* endRun went past both early returns.
SummaryRendered ==
    /\ lastCall.op = "endRun"
    /\ stats # <<>>
    /\ ~(matching /\ stats[1].selectedTests = 0)

TitleLineOf(evt) ==
    <<"  ", "[title">> \o thisPrefixTitle(evt.testFile, evt.title) \o <<"]", NL>>

\* C1: the failures list is the failure events of this run in arrival order, and
\* the failure blocks endRun writes are headed by their titles in that order.
C1_FailuresInArrivalOrder ==
    /\ failures = arrived
    /\ SummaryRendered =>
         SelectSeq(Written, IsTitleLine) = [i \in 1..Len(arrived) |-> TitleLineOf(arrived[i])]

C1_Witness ==
    /\ SummaryRendered
    /\ Len(arrived) = 2
    /\ arrived[1] # arrived[2]

C5_ConsumeNeverThrows == lastCall.op = "consumeStateChange" => ~lastCall.threw

\* C6: after a consumeStateChange or endRun call the sink is at the cork depth
\* it had before, nothing is left buffered, and what the call wrote reached the
\* sink as one batch: its chunks, then a single separator.
C6_OneBatchPerCall ==
    /\ corked = 0
    /\ buffered = <<>>
    /\ lastCall.op \in {"consumeStateChange", "endRun"} =>
         \/ chunks = <<>>
         \/ /\ chunks[Len(chunks)] = SEPARATOR
            /\ Len(SelectSeq(chunks, IsSeparator)) = 1

C6_Witness ==
    /\ lastCall.op = "consumeStateChange"
    /\ lastCall.threw
    /\ Len(Written) = 1
    /\ corked = 0

\* C8: endRun with no snapshot held writes the no-files message, the empty line
\* that ends it and nothing else, and keeps failures, knownFailures and stats.
C8_EndRunWithoutStats ==
    (lastCall.op = "endRun" /\ stats = <<>>) =>
        /\ Written = << <<"[error", "  ", "cross", " Could not find any files to test", "]", NL>>,
                        <<NL>> >>
        /\ failures = arrived
        /\ knownFailures = arrivedKnown
        /\ lastCall.prevStats = <<>>

C8_Witness ==
    /\ lastCall.op = "endRun"
    /\ stats = <<>>
    /\ failures # <<>>
    /\ knownFailures # <<>>

\* C2: startRun leaves every RunState field at its reset value or at the value
\* of the new plan, whatever the run before held, and the two lists hold the
\* events of the current run only.
C2_StartRunResets ==
    /\ lastCall.op = "startRun" =>
         /\ failures = <<>>
         /\ knownFailures = <<>>
         /\ filesWithMissingAvaImports = {}
         /\ stats = <<>>
         /\ failFastEnabled = lastCall.plan.failFastEnabled
         /\ matching = lastCall.plan.matching
         /\ previousFailures = lastCall.plan.previousFailures
         /\ prefixTitle = (IF watching \/ lastCall.plan.files > 1 THEN "prefixed" ELSE "identity")
         /\ removePreviousListener = <<lastCall.plan.status>>
    /\ failures = arrived
    /\ knownFailures = arrivedKnown

C2_Witness ==
    /\ lastCall.op = "startRun"
    /\ lastCall.prevStats # <<>>
    /\ lastCall.prevFailures > 0
    /\ lastCall.prevListener # <<>>

KnownLineOf(evt) ==
    <<"  ", "[error">> \o thisPrefixTitle(evt.testFile, evt.title) \o <<"]", NL>>

IsKnownFailureLine(c) == \E kf \in BOOLEAN, d \in {threshold, threshold + 1} :
    c = KnownLineOf(TestPassed(kf, d))

KnownFailuresListed ==
    SelectSeq(Written, IsKnownFailureLine)
        = [i \in 1..Len(arrivedKnown) |-> KnownLineOf(arrivedKnown[i])]

C7_OneSubscription ==
    /\ \A c \in Channels : listeners[c] > 0 => (listeners[c] = 1 /\ removePreviousListener = <<c>>)
    /\ lastCall.op = "startRun" =>
          \A c \in Channels : c # lastCall.plan.status => listeners[c] = 0
    /\ lastCall.op = "consumeStateChange" => removePreviousListener = <<lastCall.chan>>

C7_Witness ==
    /\ lastCall.op = "unheard"
    /\ removePreviousListener # <<>>
    /\ lastCall.prevListener = removePreviousListener
    /\ stats # <<>>

Range(c) == {c[i] : i \in DOMAIN c}

HasPostfix(c) == "HH:MM:SS" \in Range(c)

IsCountLine(c) ==
    /\ Len(c) >= 3
    /\ c[1] = "  "
    /\ c[2] \in {"[error", "[pass", "[skip", "[todo"}
    /\ \E n \in 1..(MaxCount + 2) : c[3] = ToString(n)

IsPrimaryLine(c) == IsCountLine(c) /\ (" failed" \in Range(c) \/ " passed" \in Range(c))

CountLineAt == {i \in DOMAIN Written : IsCountLine(Written[i])}

PrimaryLineAt == {i \in DOMAIN Written : IsPrimaryLine(Written[i])}

\* C9 as stated: in watch mode the first count line written, whichever it is,
\* carries the timestamp and no other line does.
C9_TimestampOnFirstCountLine ==
    (SummaryRendered /\ watching /\ CountLineAt # {}) =>
        \A i \in DOMAIN Written :
            HasPostfix(Written[i]) <=> (i \in CountLineAt /\ \A j \in CountLineAt : i <= j)

\* C9 amended: in watch mode the timestamp is on the first line written among
\* the failed-hooks, failed-tests and passed-tests lines and on no other line;
\* when none of the three is written, or outside watch mode, no line has it.
C9_TimestampOnFirstPrimaryLine ==
    SummaryRendered =>
        \A i \in DOMAIN Written :
            HasPostfix(Written[i])
                <=> (watching /\ i \in PrimaryLineAt /\ \A j \in PrimaryLineAt : i <= j)

C9_Witness ==
    /\ SummaryRendered
    /\ watching
    /\ stats[1].failedHooks > 0
    /\ stats[1].failedTests > 0
    /\ stats[1].skippedTests > 0

IsDisclaimer(c) == Len(c) >= 3 /\ c[2] = "[information" /\ c[3] = "--fail-fast is on. "

Disclaimers == SelectSeq(Written, IsDisclaimer)

TestsSkipped(r) ==
    <<"At least ", ToString(r), " ", IF r = 1 THEN "test was" ELSE "tests were", " skipped">>

FilesSkipped(k) == <<ToString(k), " ", IF k = 1 THEN "test file" ELSE "test files">>

\* The disclaimer by cases on the two counts.
ExpectedDisclaimer(r, k) ==
    <<"  ", "[information", "--fail-fast is on. ">>
    \o (CASE r > 0 /\ k > 0 -> TestsSkipped(r) \o <<", as well as ">> \o FilesSkipped(k)
          [] r > 0 /\ k <= 0 -> TestsSkipped(r)
          [] OTHER -> FilesSkipped(k) \o <<" ", IF k = 1 THEN "was" ELSE "were", " skipped">>)
    \o <<".", "]", NL>>

DisclaimerAsSpecified ==
    LET s == stats[1]
        k == s.files - s.finishedWorkers
    IN /\ IF failFastEnabled /\ (s.remainingTests > 0 \/ k > 0)
          THEN Disclaimers = <<ExpectedDisclaimer(s.remainingTests, k)>>
          ELSE Disclaimers = <<>>
       /\ (failFastEnabled /\ s.remainingTests = 2 /\ s.files = 5 /\ s.finishedWorkers = 3) =>
            Disclaimers = << <<"  ", "[information", "--fail-fast is on. ", "At least ", "2",
                               " ", "tests were", " skipped", ", as well as ", "2", " ",
                               "test files", ".", "]", NL>> >>

\* C10 as stated: every endRun with a snapshot prints the disclaimer exactly
\* when fail-fast is on and tests remain or files did not finish.
C10_DisclaimerWheneverFailFast ==
    (lastCall.op = "endRun" /\ stats # <<>>) => DisclaimerAsSpecified

\* C10 amended: the same, for an endRun that renders the summary; an endRun
\* that returns early (no snapshot, or a match filter with no selected test)
\* prints no disclaimer.
C10_DisclaimerInSummary ==
    lastCall.op = "endRun" =>
        IF SummaryRendered THEN DisclaimerAsSpecified ELSE Disclaimers = <<>>

C10_Witness ==
    /\ SummaryRendered
    /\ failFastEnabled
    /\ stats[1].remainingTests = 2
    /\ stats[1].files = 5
    /\ stats[1].finishedWorkers = 3

\* A line as written, without its newline and without the timestamp a
\* watch-mode line may carry.
Stem(c) == SubSeq(c, 1, IF HasPostfix(c) THEN Len(c) - 7 ELSE Len(c) - 1)

WordCount(n, word) == IF n = 1 THEN <<"1", " ", word>> ELSE <<ToString(n), " ", word, "s">>

HooksFailedText(n) == <<"  ", "[error">> \o WordCount(n, "hook") \o <<" failed", "]">>

TestsFailedText(n) == <<"  ", "[error">> \o WordCount(n, "test") \o <<" failed", "]">>

TestsPassedText(n) == <<"  ", "[pass">> \o WordCount(n, "test") \o <<" passed", "]">>

\* The primary lines of the summary, in the order written.
PrimaryLines ==
    LET ls == SelectSeq(Written, IsPrimaryLine) IN [i \in 1..Len(ls) |-> Stem(ls[i])]

\* C11: in a rendered summary the failed-hooks line is written iff failedHooks
\* is nonzero, the failed-tests line iff failedTests is nonzero, and the
\* passed-tests line, once, iff both are zero and passedTests is nonzero; each
\* reads "1 test" / "1 hook" for a count of one and the plural otherwise.
C11_PassLineExcludesFailureLines ==
    SummaryRendered =>
        LET s == stats[1] IN
        PrimaryLines =
            (IF s.failedHooks # 0 THEN <<HooksFailedText(s.failedHooks)>> ELSE <<>>)
            \o (IF s.failedTests # 0 THEN <<TestsFailedText(s.failedTests)>> ELSE <<>>)
            \o (IF s.failedHooks = 0 /\ s.failedTests = 0 /\ s.passedTests # 0
                THEN <<TestsPassedText(s.passedTests)>> ELSE <<>>)

C11_Witness ==
    /\ SummaryRendered
    /\ stats[1].failedHooks = 0
    /\ stats[1].failedTests = 0
    /\ stats[1].passedTests = 3
    /\ Len(SelectSeq(Written, IsPrimaryLine)) = 1

IsExceptionCall(call) ==
    call.op = "consumeStateChange" /\ call.evt.type \in ExceptionTypes

\* Text that ends with one empty line and no more than one.
EndsWithOneEmptyLine(text) ==
    /\ Len(text) >= 3
    /\ text[Len(text)] = NL
    /\ text[Len(text) - 1] = NL
    /\ text[Len(text) - 2] # NL

\* C12: when an uncaught-exception or unhandled-rejection event is consumed
\* right after another one, the first call has ended on one empty line and the
\* second call writes its title line first: ensureEmptyLine adds no second
\* empty line between the two blocks.
C12_NoSecondEmptyLine ==
    [][(IsExceptionCall(lastCall) /\ IsExceptionCall(lastCall')) =>
          /\ lastLineIsEmpty
          /\ EndsWithOneEmptyLine(Text(chunks))
          /\ IsTitleLine(Written'[1])
          /\ Written'[2] = <<NL>>]_vars

C12_Witness ==
    /\ IsExceptionCall(lastCall)
    /\ lastCall.prevType \in ExceptionTypes
    /\ lastCall.prevType # lastCall.evt.type
    /\ IsTitleLine(Written[1])

IgnoredTypes == {"declared-test", "unknown"}

\* C13: consuming a declared-test event, or an event of a type the switch does
\* not name, leaves every RunState field as it was, writes nothing to the sink
\* and does not throw, whatever state the reporter is in.
C13_IgnoredEventsChangeNothing ==
    [][(lastCall'.op = "consumeStateChange" /\ lastCall'.evt.type \in IgnoredTypes) =>
          /\ UNCHANGED <<watching, reporter, corked, buffered, tail, listeners>>
          /\ chunks' = <<>>
          /\ ~lastCall'.threw]_vars

C13_Witness ==
    /\ lastCall.op = "consumeStateChange"
    /\ lastCall.evt.type = "unknown"
    /\ stats # <<>>
    /\ failures # <<>>
    /\ knownFailures # <<>>
    /\ filesWithMissingAvaImports # {}
    /\ chunks = <<>>

\* C14: a worker-stdout or worker-stderr event reaches the sink as one write of
\* exactly its chunk, followed by the separator of that write, and leaves
\* failures, knownFailures, stats and the missing-import set as they were.
C14_RawChunkPassthrough ==
    [][(lastCall'.op = "consumeStateChange"
        /\ lastCall'.evt.type \in {"worker-stdout", "worker-stderr"}) =>
          /\ chunks' = <<lastCall'.evt.chunk, SEPARATOR>>
          /\ ~lastCall'.threw
          /\ UNCHANGED <<failures, knownFailures, stats, filesWithMissingAvaImports>>]_vars

C14_Witness ==
    /\ lastCall.op = "consumeStateChange"
    /\ lastCall.evt.type = "worker-stdout"
    /\ chunks = << <<"hello", NL>>, SEPARATOR >>
    /\ stats # <<>>
    /\ failures # <<>>

\* Text that ends with an empty line; a lone newline is an empty first line.
EndsWithEmptyLine(text) ==
    \/ text = <<NL>>
    \/ Len(text) >= 2 /\ text[Len(text)] = NL /\ text[Len(text) - 1] = NL

\* The sink's text up to the title line of the call that wrote lines, by shape.
BeforeTitle(before, lines) ==
    LET k == CHOOSE i \in DOMAIN lines :
                 IsTitleLine(lines[i]) /\ \A j \in 1..(i - 1) : ~IsTitleLine(lines[j])
    IN before \o Shapes(Text(SubSeq(lines, 1, k - 1)))

\* C15: whatever the sink holds when an uncaught-exception or
\* unhandled-rejection event is consumed, the text before the title line the
\* call writes ends with an empty line.
C15_TitleAfterEmptyLine ==
    [][IsExceptionCall(lastCall') => EndsWithEmptyLine(BeforeTitle(tail, Written'))]_vars

IsBlank(c) == c = <<NL>>

TitleAt == {i \in DOMAIN Written : IsTitleLine(Written[i])}

\* Line i comes after three empty lines and no more than three.
AfterThreeEmptyLines(i) ==
    /\ i > 4
    /\ \A j \in (i - 3)..(i - 1) : IsBlank(Written[j])
    /\ ~IsBlank(Written[i - 4])

\* The failure blocks of a summary: one per recorded failure, three empty lines
\* before every block but the first, and after the last block three empty
\* lines and the disclaimer if one is due, else the closing empty line at once.
FailureBlocksSpaced ==
    LET s == stats[1]
        due == failFastEnabled /\ (s.remainingTests > 0 \/ s.files > s.finishedWorkers)
        n == Len(Written)
    IN /\ Cardinality(TitleAt) = Len(failures)
       /\ \A i \in TitleAt : (\E j \in TitleAt : j < i) => AfterThreeEmptyLines(i)
       /\ IsBlank(Written[n])
       /\ IF due
          THEN IsDisclaimer(Written[n - 1]) /\ AfterThreeEmptyLines(n - 1)
          ELSE ~IsBlank(Written[n - 1])

\* C16: every summary that renders failures spaces their blocks that way,
\* whatever the failures list holds, the same record twice included.
C16_ThreeEmptyLinesBetweenFailures ==
    (SummaryRendered /\ failures # <<>>) => FailureBlocksSpaced

IsWorkerCall(call) ==
    call.op = "consumeStateChange" /\ call.evt.type \in {"worker-failed", "worker-finished"}

\* C17: a worker-failed or worker-finished event for a file flagged earlier in
\* the run by a missing-ava-import event writes nothing and does not throw; a
\* worker-failed event for a file not flagged writes one line; within a run
\* the set of flagged files only grows, by the file of each missing-ava-import
\* event, and startRun empties it.
C17_FlaggedFileSuppressed ==
    [][/\ (IsWorkerCall(lastCall') /\ lastCall'.evt.testFile \in filesWithMissingAvaImports) =>
             chunks' = <<>> /\ ~lastCall'.threw
       /\ (IsWorkerCall(lastCall') /\ lastCall'.evt.type = "worker-failed"
           /\ lastCall'.evt.testFile \notin filesWithMissingAvaImports) =>
             Len(Written') = 1 /\ Len(SelectSeq(Text(chunks'), LAMBDA t : t = NL)) = 1
       /\ filesWithMissingAvaImports' =
             (CASE lastCall'.op = "startRun" -> {}
                [] lastCall'.op = "consumeStateChange" /\ lastCall'.evt.type = "missing-ava-import" ->
                      filesWithMissingAvaImports \cup {lastCall'.evt.testFile}
                [] OTHER -> filesWithMissingAvaImports)]_vars

C17_Witness ==
    /\ IsWorkerCall(lastCall)
    /\ lastCall.evt.type = "worker-finished"
    /\ ~lastCall.evt.forcedExit
    /\ lastCall.evt.testFile \in filesWithMissingAvaImports
    /\ stats # <<>>
    /\ lastCall.evt.testFile \in DOMAIN stats[1].byFile
    /\ stats[1].byFile[lastCall.evt.testFile].declaredTests = 0
    /\ chunks = <<>>

NoTestsFoundText(file) == <<"[error", "  ", "cross", " No tests found in ", file, "]", NL>>

RemainingText(n, file) ==
    <<"[error", "  ", "cross", " ", ToString(n), " ">>
    \o (IF n = 1 THEN <<"test">> ELSE <<"test", "s">>)
    \o <<" remaining in ", file, "]", NL>>

\* C18: a worker-finished event that is not a forced exit, for a file not
\* flagged, writes the no-tests line when the snapshot held counts no declared
\* test for the file, else the remaining-tests line when fail-fast is off and
\* the snapshot counts remaining tests for the file, else nothing; without a
\* snapshot entry for the file it writes nothing.
C18_WorkerFinishedLine ==
    (lastCall.op = "consumeStateChange" /\ lastCall.evt.type = "worker-finished"
     /\ ~lastCall.evt.forcedExit /\ lastCall.evt.testFile \notin filesWithMissingAvaImports) =>
        LET file == lastCall.evt.testFile
            held == stats # <<>> /\ file \in DOMAIN stats[1].byFile
        IN /\ stats = lastCall.prevStats
           /\ IF held /\ stats[1].byFile[file].declaredTests = 0
              THEN Written = <<NoTestsFoundText(file)>>
              ELSE IF held /\ ~failFastEnabled /\ stats[1].byFile[file].remainingTests > 0
              THEN Written = <<RemainingText(stats[1].byFile[file].remainingTests, file)>>
              ELSE Written = <<>>

C18_Witness ==
    /\ lastCall.op = "consumeStateChange"
    /\ lastCall.evt.type = "worker-finished"
    /\ ~lastCall.evt.forcedExit
    /\ lastCall.evt.testFile \notin filesWithMissingAvaImports
    /\ failFastEnabled
    /\ stats # <<>>
    /\ lastCall.evt.testFile \in DOMAIN stats[1].byFile
    /\ stats[1].byFile[lastCall.evt.testFile].declaredTests > 0
    /\ stats[1].byFile[lastCall.evt.testFile].remainingTests > 0
    /\ Written = <<>>

IsTestPassedCall(call) == call.op = "consumeStateChange" /\ call.evt.type = "test-passed"

HasDuration(c) == "[duration" \in Range(c)

PrefixedTitle(evt) ==
    IF prefixTitle = "identity" THEN <<evt.title>> ELSE <<evt.testFile, ">", evt.title>>

\* The line of a passed test: the tick, the prefixed title, the duration if any.
IsTickLine(c, evt) ==
    \E style \in {"[pass", "[error"} :
        /\ Len(c) >= 5 + Len(PrefixedTitle(evt))
        /\ SubSeq(c, 1, 5) = <<"  ", style, "tick", "]", " ">>
        /\ \E k \in 6..7 : SubSeq(c, k, k + Len(PrefixedTitle(evt)) - 1) = PrefixedTitle(evt)

DurationText(d) == <<"[duration", " (", ToString(d), "ms", ")", "]">>

\* C19 as stated: every test-passed event writes one tick line with the
\* prefixed title, which has the duration suffix iff the duration is over 100.
C19_DurationOverThreshold ==
    IsTestPassedCall(lastCall) =>
        /\ Len(Written) = 1
        /\ IsTickLine(Written[1], lastCall.evt)
        /\ HasDuration(Written[1]) <=> lastCall.evt.duration > 100

\* C19 amended: an ordinary pass writes the pass-styled tick, the prefixed
\* title and the duration suffix iff the duration is over 100 (not at 100); a
\* known-failing pass writes the error-styled tick and title and never a
\* duration.
C19_DurationOnOrdinaryPassOnly ==
    IsTestPassedCall(lastCall) =>
        LET evt == lastCall.evt IN
        Written =
          << IF evt.knownFailing
             THEN <<"  ", "[error", "tick", "]", " ", "[error">> \o PrefixedTitle(evt) \o <<"]", NL>>
             ELSE <<"  ", "[pass", "tick", "]", " ">> \o PrefixedTitle(evt)
                  \o (IF evt.duration > 100 THEN DurationText(evt.duration) ELSE <<>>)
                  \o <<NL>> >>

C19_Witness ==
    /\ IsTestPassedCall(lastCall)
    /\ lastCall.evt.knownFailing
    /\ lastCall.evt.duration = 101
    /\ prefixTitle = "prefixed"
    /\ ~HasDuration(Written[1])

\* The display title of evt under prefixer p.
TitleUnder(p, evt) ==
    IF p = "identity" THEN <<evt.title>> ELSE <<evt.testFile, ">", evt.title>>

\* What every call other than startRun does with the prefixer, and the titles
\* the failure lines carry: the prefixer stays, the live line of a failure
\* and its block in the summary both show the title under it.
PrefixerKeptAndUsed ==
    /\ lastCall'.op # "startRun" => prefixTitle' = prefixTitle
    /\ (lastCall'.op = "consumeStateChange" /\ isFailure(lastCall'.evt)) =>
          Written'[1] = <<"  ", "[error", "cross", "]", " ">>
                        \o TitleUnder(prefixTitle, lastCall'.evt)
                        \o <<" ", "[error", lastCall'.evt.err[1].message, "]", NL>>
    /\ (lastCall'.op = "endRun" /\ stats # <<>>) =>
          SelectSeq(Written', IsTitleLine) =
              [i \in 1..Len(failures) |->
                  <<"  ", "[title">> \o TitleUnder(prefixTitle, failures[i]) \o <<"]", NL>>]

\* C20 as stated: startRun leaves the identity exactly when the plan has one
\* file and the reporter is not watching; no other call changes the prefixer.
C20_IdentityIffOneFile ==
    [][/\ lastCall'.op = "startRun" =>
             (prefixTitle' = "identity" <=> (lastCall'.plan.files = 1 /\ ~watching))
       /\ PrefixerKeptAndUsed]_vars

\* C20 amended: startRun leaves the identity exactly when the plan has at
\* most one file (none included) and the reporter is not watching, and a
\* prefixing function otherwise; no other call changes the prefixer.
C20_IdentityIffAtMostOneFile ==
    [][/\ lastCall'.op = "startRun" =>
             /\ prefixTitle' = "identity" <=> (lastCall'.plan.files <= 1 /\ ~watching)
             /\ prefixTitle' = "prefixed" <=> (lastCall'.plan.files > 1 \/ watching)
       /\ PrefixerKeptAndUsed]_vars

C20_Witness ==
    /\ SummaryRendered
    /\ ~watching
    /\ prefixTitle = "prefixed"
    /\ Len(failures) >= 1
    /\ Len(SelectSeq(Written, IsTitleLine)) = Len(failures)

====
